---------------------------- MODULE Spec2Model ----------------------------
(***************************************************************************)
(* A model of holoviews/element/comparison.py: the dispatch table          *)
(* equality_type_funcs, Comparison.register, ComparisonTestCase.__init__,  *)
(* ComparisonInterface.assertEqual and the per-type comparators.           *)
(*                                                                         *)
(* Python values are records carrying their exact type in the field        *)
(* "type".  Objects of the Dimensioned hierarchy also carry their identity *)
(* in "oid" (two records with the same oid are the same object), so that   *)
(* Python's default identity-based == is equality of records.  Floating    *)
(* point numbers are integers in units of 10^-6.                           *)
(*                                                                         *)
(* A comparator returns [out, log]: out is the exception it ends with      *)
(* (exc = "none" when it returns normally) and log is the sequence of      *)
(* comparator invocations it made, in order.                               *)
(***************************************************************************)
EXTENDS Integers, Sequences, FiniteSets, TLC

VARIABLES
    equality_type_funcs,  \* ComparisonInterface.equality_type_funcs (class attribute)
    testcase_funcs,       \* what a ComparisonTestCase passed to addTypeEqualityFunc
    testcases,            \* number of ComparisonTestCase instances constructed
    registrations,        \* number of Comparison.register() calls made
    pc,                   \* "idle" between calls, "returned" after a call
    call,                 \* the call just made: [fn, first, second, msg]
    outcome,              \* the exception the call ended with
    log                   \* the comparator invocations the call made

vars ==
    <<equality_type_funcs, testcase_funcs, testcases, registrations, pc, call,
      outcome, log>>

-----------------------------------------------------------------------------
(* Bounds of the model *)

\* longest dimension list / array / container drawn as an input
MaxLen == 2

\* how many ComparisonTestCase instances are constructed
MaxTestCases == 1

\* how many times Comparison.register() runs
MaxRegistrations == 2

-----------------------------------------------------------------------------
(* Values *)

None == "<None>"

Str(s) == [type |-> "str", v |-> s]

Float(t, n) == [type |-> t, v |-> n]

NdArray(s) == [type |-> "ndarray", v |-> s]

FloatTypes == {"float", "float32", "float64"}

Dim(name, cyclic, range, dtype, unit, values, format_string) ==
    [type |-> "Dimension", name |-> name, cyclic |-> cyclic, range |-> range,
     dtype |-> dtype, unit |-> unit, values |-> values,
     format_string |-> format_string]

\* An object of the Dimensioned hierarchy.  Fields a type does not have keep
\* the defaults given by Blank.
Blank(type, oid) ==
    [type |-> type, oid |-> oid, value |-> type, label |-> "",
     value_dimensions |-> <<>>, key_dimensions |-> <<>>,
     data |-> NdArray(<<>>), edges |-> NdArray(<<>>), values |-> NdArray(<<>>),
     bounds |-> 0, rows |-> 0, cols |-> 0, depth |-> 0,
     keys |-> <<>>, items |-> <<>>, kwargs |-> Str("")]

-----------------------------------------------------------------------------
(* Outcomes *)

OK == [exc |-> "none", text |-> <<>>]

\* raise cls.failureException(text); failureException = AssertionError
Failure(text) == [exc |-> "AssertionError", text |-> text]

TypeError == [exc |-> "TypeError", text |-> <<>>]

Ret(out, entries) == [out |-> out, log |-> entries]

\* how the log names an argument: an object by its type and identity, any
\* other value by itself
Ref(x) == IF "oid" \in DOMAIN x THEN [type |-> x.type, oid |-> x.oid] ELSE x

\* one invocation: the code of "via" called fn(a, b)
Entry(via, fn, a, b) ==
    [via |-> via, fn |-> fn, first |-> Ref(a), second |-> Ref(b)]

\* statement sequencing: the second statement runs only if the first returned
Then(r1, r2) ==
    IF r1.out.exc # "none" THEN r1
    ELSE [out |-> r2.out, log |-> r1.log \o r2.log]

\* the call fn(a, b) made by the code of "by": its log entry, then what it did
Called(by, fn, a, b, body) ==
    [out |-> body.out, log |-> <<Entry(by, fn, a, b)>> \o body.log]

\* a list argument, as it appears in the log
List(s) == [type |-> "list", v |-> s]

-----------------------------------------------------------------------------
(* The dispatch table *)

\* an entry holding a bound method of cls / holding the name of a method
Func(name) == [kind |-> "func", name |-> name]

Named(name) == [kind |-> "str", name |-> name]

\* The assignments of Comparison.register, in source order.  np.float is an
\* alias of the builtin float, so the second assignment rewrites the first key.
RegisterAssignments ==
    << <<"float", "compare_floats">>, <<"float", "compare_floats">>,
       <<"float32", "compare_floats">>, <<"float64", "compare_floats">>,
       <<"ndarray", "compare_arrays">>,
       <<"Dimension", "compare_dimensions">>,
       <<"Dimensioned", "compare_dimensioned">>,
       <<"Element", "compare_elements">>,
       <<"Overlay", "compare_overlays">>,
       <<"LayoutTree", "compare_layouttrees">>,
       <<"VLine", "compare_vline">>, <<"HLine", "compare_hline">>,
       <<"Spline", "compare_spline">>, <<"Arrow", "compare_arrow">>,
       <<"Text", "compare_text">>,
       <<"Matrix", "compare_matrix">>,
       <<"Curve", "compare_curve">>, <<"Histogram", "compare_histogram">>,
       <<"Raster", "compare_raster">>, <<"HeatMap", "compare_heatmap">>,
       <<"ItemTable", "compare_itemtables">>, <<"Table", "compare_tables">>,
       <<"Contours", "compare_contours">>, <<"Points", "compare_points">>,
       <<"VectorField", "compare_vectorfield">>,
       <<"DataFrameView", "compare_dframe">>,
       <<"PandasDFrame", "compare_dframe">>, <<"DFrame", "compare_dframe">>,
       <<"Bivariate", "compare_bivariate">>,
       <<"Distribution", "compare_distribution">>,
       <<"Regression", "compare_regression">>,
       <<"TimeSeries", "compare_timeseries">>,
       <<"NdLayout", "compare_gridlayout">>,
       <<"AdjointLayout", "compare_adjointlayouts">>,
       <<"NdOverlay", "compare_ndoverlays">>,
       <<"AxisLayout", "compare_grids">>,
       <<"HoloMap", "compare_holomap">>,
       <<"Options", "compare_options">> >>

\* d[k] = v on a dict d
SetItem(d, k, v) == [x \in DOMAIN d \cup {k} |-> IF x = k THEN v ELSE d[x]]

\* a slip: the last assignment of the list is never made
RECURSIVE AssignAll_SkipLast(_, _)
AssignAll_SkipLast(d, assignments) ==
    IF Len(assignments) <= 1 THEN d
    ELSE AssignAll_SkipLast(SetItem(d, Head(assignments)[1],
                                    Func(Head(assignments)[2])),
                            Tail(assignments))

RECURSIVE AssignAll(_, _)
AssignAll(d, assignments) ==
    IF assignments = <<>> THEN d
    ELSE AssignAll(SetItem(d, Head(assignments)[1], Func(Head(assignments)[2])),
                   Tail(assignments))

\* the dict Comparison.register() leaves in (and returns as) equality_type_funcs
register(d) == AssignAll(d, RegisterAssignments)

EmptyDict == [x \in {} |-> Func("")]

-----------------------------------------------------------------------------
(* Literal comparisons *)

Abs(n) == IF n < 0 THEN -n ELSE n

\* a scalar is a 0-d array
ArrOf(x) == IF x.type \in FloatTypes THEN <<x.v>> ELSE x.v

\* numpy.testing.assert_array_almost_equal (decimal=6) returns normally: the
\* shapes agree and every abs(desired-actual) < 1.5 * 10^-6
AlmostEqual(arr1, arr2) ==
    /\ Len(ArrOf(arr1)) = Len(ArrOf(arr2))
    /\ \A i \in DOMAIN ArrOf(arr1) :
           2 * Abs(ArrOf(arr1)[i] - ArrOf(arr2)[i]) < 3

compare_arrays(arr1, arr2, msg) ==
    IF AlmostEqual(arr1, arr2) THEN Ret(OK, <<>>)
    ELSE IF msg = None THEN Ret(TypeError, <<>>)
    ELSE Ret(Failure(<<msg, " not almost equal to 6 decimals">>), <<>>)

compare_floats(arr1, arr2, msg) ==
    Called("compare_floats", "compare_arrays", arr1, arr2,
           compare_arrays(arr1, arr2, msg))

bounds_check(el1, el2) ==
    IF el1.bounds # el2.bounds
    THEN Ret(Failure(<<"BoundingBoxes are mismatched.">>), <<>>)
    ELSE Ret(OK, <<>>)

\* Dimension.__eq__ of holoviews.core: dimensions are equal when their names are
DimensionEq(d1, d2) == d1.name = d2.name

\* bool(first == second) of line 52, or the exception evaluating it raises
PyEq(first, second) ==
    IF first.type \in FloatTypes /\ second.type \in FloatTypes
    THEN (IF first.v = second.v THEN "True" ELSE "False")
    ELSE IF first.type # second.type THEN "False"
    ELSE IF first.type = "Dimension"
    THEN (IF DimensionEq(first, second) THEN "True" ELSE "False")
    ELSE IF first.type = "ndarray"
    THEN (IF Len(first.v) # Len(second.v) THEN "False"
          ELSE IF Len(first.v) > 1 THEN "ValueError"
          ELSE IF Len(first.v) = 0 THEN "False"
          ELSE IF first.v = second.v THEN "True" ELSE "False")
    ELSE IF first = second THEN "True" ELSE "False"

simple_equality(first, second, msg) ==
    IF PyEq(first, second) = "ValueError"
    THEN Ret([exc |-> "ValueError", text |-> <<>>], <<>>)
    ELSE IF PyEq(first, second) = "False"
    THEN Ret(Failure(<<IF msg \in {None, ""} THEN "first != second" ELSE msg>>), <<>>)
    ELSE Ret(OK, <<>>)

-----------------------------------------------------------------------------
(* Dimension and Dimensioned comparisons *)

RECURSIVE AssertEqual(_, _, _, _)

\* for a, b in zip(s1, s2): cls.assertEqual(a, b)
RECURSIVE ZipAssertEqual(_, _, _)
ZipAssertEqual(T, s1, s2) ==
    IF s1 = <<>> \/ s2 = <<>> THEN Ret(OK, <<>>)
    ELSE Then(AssertEqual(T, Head(s1), Head(s2), None),
              ZipAssertEqual(T, Tail(s1), Tail(s2)))

\* a slip: the unit declarations are not compared
compare_dimensions_NoUnit(dim1, dim2) ==
    IF dim1.name # dim2.name
    THEN Ret(Failure(<<"Dimension names mismatched">>), <<>>)
    ELSE IF dim1.cyclic # dim2.cyclic
    THEN Ret(Failure(<<"Dimension cyclic declarations mismatched.">>), <<>>)
    ELSE IF dim1.range # dim2.range
    THEN Ret(Failure(<<"Dimension ranges mismatched">>), <<>>)
    ELSE IF dim1.dtype # dim2.dtype
    THEN Ret(Failure(<<"Dimension type declarations mismatched">>), <<>>)
    ELSE IF dim1.values # dim2.values
    THEN Ret(Failure(<<"Dimension value declarations mismatched">>), <<>>)
    ELSE IF dim1.format_string # dim2.format_string
    THEN Ret(Failure(<<"Dimension format string declarations mismatched">>), <<>>)
    ELSE Ret(OK, <<>>)

compare_dimensions(dim1, dim2) ==
    IF dim1.name # dim2.name
    THEN Ret(Failure(<<"Dimension names mismatched">>), <<>>)
    ELSE IF dim1.cyclic # dim2.cyclic
    THEN Ret(Failure(<<"Dimension cyclic declarations mismatched.">>), <<>>)
    ELSE IF dim1.range # dim2.range
    THEN Ret(Failure(<<"Dimension ranges mismatched">>), <<>>)
    ELSE IF dim1.dtype # dim2.dtype
    THEN Ret(Failure(<<"Dimension type declarations mismatched">>), <<>>)
    ELSE IF dim1.unit # dim2.unit
    THEN Ret(Failure(<<"Dimension unit declarations mismatched">>), <<>>)
    ELSE IF dim1.values # dim2.values
    THEN Ret(Failure(<<"Dimension value declarations mismatched">>), <<>>)
    ELSE IF dim1.format_string # dim2.format_string
    THEN Ret(Failure(<<"Dimension format string declarations mismatched">>), <<>>)
    ELSE Ret(OK, <<>>)

compare_labelled_data(T, obj1, obj2) ==
    Then(AssertEqual(T, Str(obj1.value), Str(obj2.value), "Value labels mismatched."),
         AssertEqual(T, Str(obj1.label), Str(obj2.label), "Labels mismatched."))

\* a slip: the lengths are not compared, and zip stops at the shorter list
compare_dimension_lists_NoLength(T, dlist1, dlist2, msg) ==
    ZipAssertEqual(T, dlist1, dlist2)

compare_dimension_lists(T, dlist1, dlist2, msg) ==
    IF Len(dlist1) # Len(dlist2)
    THEN Ret(Failure(<<msg, " mismatched">>), <<>>)
    ELSE ZipAssertEqual(T, dlist1, dlist2)

\* a slip: the key dimension list is compared before the value dimension list
compare_dimensioned_KeysFirst(T, obj1, obj2) ==
    Then(Called("compare_dimensioned", "compare_labelled_data", obj1, obj2,
                compare_labelled_data(T, obj1, obj2)),
    Then(Called("compare_dimensioned", "compare_dimension_lists",
                List(obj1.key_dimensions), List(obj2.key_dimensions),
                compare_dimension_lists(T, obj1.key_dimensions,
                                        obj2.key_dimensions,
                                        "Key dimension list")),
         Called("compare_dimensioned", "compare_dimension_lists",
                List(obj1.value_dimensions), List(obj2.value_dimensions),
                compare_dimension_lists(T, obj1.value_dimensions,
                                        obj2.value_dimensions,
                                        "Value dimension list"))))

compare_dimensioned(T, obj1, obj2) ==
    Then(Called("compare_dimensioned", "compare_labelled_data", obj1, obj2,
                compare_labelled_data(T, obj1, obj2)),
    Then(Called("compare_dimensioned", "compare_dimension_lists",
                List(obj1.value_dimensions), List(obj2.value_dimensions),
                compare_dimension_lists(T, obj1.value_dimensions,
                                        obj2.value_dimensions,
                                        "Value dimension list")),
         Called("compare_dimensioned", "compare_dimension_lists",
                List(obj1.key_dimensions), List(obj2.key_dimensions),
                compare_dimension_lists(T, obj1.key_dimensions,
                                        obj2.key_dimensions,
                                        "Key dimension list"))))

\* cls.compare_dimensioned(el1, el2), the first statement of most comparators
Header(by, T, el1, el2) ==
    Called(by, "compare_dimensioned", el1, el2, compare_dimensioned(T, el1, el2))

\* cls.compare_arrays(a, b, msg) called by a comparator
Arrays(by, a, b, msg) ==
    Called(by, "compare_arrays", a, b, compare_arrays(a, b, msg))

compare_elements(T, obj1, obj2) ==
    Then(Called("compare_elements", "compare_labelled_data", obj1, obj2,
                compare_labelled_data(T, obj1, obj2)),
         AssertEqual(T, obj1.data, obj2.data, None))

-----------------------------------------------------------------------------
(* What the comparators read of the compared objects *)

\* el.keys(): the paths of a tree, the keys of a mapping, in iteration order
Keys(el) == el.keys

KeySet(el) == {el.keys[i] : i \in DOMAIN el.keys}

\* el.values(), and the items iter(el) yields
Values(el) == el.items

\* len(el)
PyLen(el) ==
    IF el.type = "Contours" THEN Len(el.data.v)
    ELSE IF el.type \in {"Points", "VectorField"} THEN Len(el.data.v)
    ELSE IF el.type = "AxisLayout" THEN el.depth
    ELSE Len(el.items)

-----------------------------------------------------------------------------
(* Compositional trees *)

\* a slip: the paths are compared as sets, whatever their order
compare_trees_PathSets(T, el1, el2, msg) ==
    IF Len(Keys(el1)) # Len(Keys(el2))
    THEN Ret(Failure(<<msg, " have mismatched path counts.">>), <<>>)
    ELSE IF KeySet(el1) # KeySet(el2)
    THEN Ret(Failure(<<msg, " have mismatched paths.">>), <<>>)
    ELSE ZipAssertEqual(T, Values(el1), Values(el2))

compare_trees(T, el1, el2, msg) ==
    IF Len(Keys(el1)) # Len(Keys(el2))
    THEN Ret(Failure(<<msg, " have mismatched path counts.">>), <<>>)
    ELSE IF Keys(el1) # Keys(el2)
    THEN Ret(Failure(<<msg, " have mismatched paths.">>), <<>>)
    ELSE ZipAssertEqual(T, Values(el1), Values(el2))

compare_layouttrees(T, el1, el2) ==
    Then(Header("compare_layouttrees", T, el1, el2),
         Called("compare_layouttrees", "compare_trees", el1, el2,
                compare_trees(T, el1, el2, "LayoutTrees")))

compare_overlays(T, el1, el2) ==
    Then(Header("compare_overlays", T, el1, el2),
         Called("compare_overlays", "compare_trees", el1, el2,
                compare_trees(T, el1, el2, "Overlays")))

-----------------------------------------------------------------------------
(* Map based classes *)

compare_ndmappings(T, el1, el2, msg) ==
    Then(Header("compare_ndmappings", T, el1, el2),
         IF Len(Keys(el1)) # Len(Keys(el2))
         THEN Ret(Failure(<<msg, " have different numbers of keys.">>), <<>>)
         ELSE IF KeySet(el1) # KeySet(el2)
         THEN Ret(Failure(<<msg, " have different sets of keys.">>), <<>>)
         ELSE ZipAssertEqual(T, Values(el1), Values(el2)))

compare_holomap(T, el1, el2, msg) ==
    Then(Header("compare_holomap", T, el1, el2),
         Called("compare_holomap", "compare_ndmappings", el1, el2,
                compare_ndmappings(T, el1, el2, msg)))

compare_gridlayout(T, el1, el2) ==
    Then(Header("compare_gridlayout", T, el1, el2),
         IF PyLen(el1) # PyLen(el2)
         THEN Ret(Failure(<<"GridLayouts have different sizes.">>), <<>>)
         ELSE IF KeySet(el1) # KeySet(el2)
         THEN Ret(Failure(<<"GridLayouts have different keys.">>), <<>>)
         ELSE ZipAssertEqual(T, Values(el1), Values(el2)))

compare_ndoverlays(T, el1, el2) ==
    Then(Header("compare_ndoverlays", T, el1, el2),
         IF PyLen(el1) # PyLen(el2)
         THEN Ret(Failure(<<"NdOverlays have different lengths.">>), <<>>)
         ELSE ZipAssertEqual(T, Values(el1), Values(el2)))

compare_adjointlayouts(T, el1, el2) ==
    Then(Header("compare_adjointlayouts", T, el1, el2),
         ZipAssertEqual(T, Values(el1), Values(el1)))

-----------------------------------------------------------------------------
(* Annotations *)

compare_annotation(T, el1, el2) ==
    Then(Header("compare_annotation", T, el1, el2),
         AssertEqual(T, el1.data, el2.data, None))

\* compare_hline, compare_vline, compare_spline, compare_arrow, compare_text
compare_any_annotation(fn, T, el1, el2) ==
    Called(fn, "compare_annotation", el1, el2, compare_annotation(T, el1, el2))

-----------------------------------------------------------------------------
(* Charts, rasters, tables, pandas and seaborn elements, grids, options *)

\* compare_curve, compare_raster, compare_heatmap, compare_distribution,
\* compare_timeseries, compare_bivariate, compare_regression: the header,
\* then the data arrays under the comparator's own message
compare_data(fn, T, el1, el2, msg) ==
    Then(Header(fn, T, el1, el2),
         Arrays(fn, el1.data, el2.data, msg))

compare_histogram(T, el1, el2) ==
    Then(Header("compare_histogram", T, el1, el2),
    Then(Arrays("compare_histogram", el1.edges, el2.edges, "Histogram edges"),
         Arrays("compare_histogram", el1.values, el2.values, "Histogram values")))

\* for c1, c2 in zip(el1.data, el2.data): cls.compare_arrays(c1, c2, 'Contour data')
RECURSIVE ZipCompareArrays(_, _)
ZipCompareArrays(s1, s2) ==
    IF s1 = <<>> \/ s2 = <<>> THEN Ret(OK, <<>>)
    ELSE Then(Arrays("compare_contours", Head(s1), Head(s2), "Contour data"),
              ZipCompareArrays(Tail(s1), Tail(s2)))

compare_contours(T, el1, el2) ==
    Then(Header("compare_contours", T, el1, el2),
         IF PyLen(el1) # PyLen(el2)
         THEN Ret(Failure(<<"Contours do not have a matching number of contours.">>),
                  <<>>)
         ELSE ZipCompareArrays(el1.data.v, el2.data.v))

\* compare_points, compare_vectorfield
compare_sized_data(fn, T, el1, el2, sizemsg, msg) ==
    Then(Header(fn, T, el1, el2),
         IF PyLen(el1) # PyLen(el2)
         THEN Ret(Failure(<<sizemsg>>), <<>>)
         ELSE Arrays(fn, el1.data, el2.data, msg))

compare_matrix(T, el1, el2, msg) ==
    Then(Header("compare_matrix", T, el1, el2),
    Then(Arrays("compare_matrix", el1.data, el2.data, msg),
         Called("compare_matrix", "bounds_check", el1, el2, bounds_check(el1, el2))))

\* [d.name for d in dims]
DimNames(dims) == [i \in DOMAIN dims |-> dims[i].name]

compare_itemtables(T, el1, el2) ==
    Then(Header("compare_itemtables", T, el1, el2),
         IF el1.rows # el2.rows
         THEN Ret(Failure(<<"ItemTables have different numbers of rows.">>), <<>>)
         ELSE IF el1.cols # el2.cols
         THEN Ret(Failure(<<"ItemTables have different numbers of columns.">>), <<>>)
         ELSE IF DimNames(el1.value_dimensions) # DimNames(el2.value_dimensions)
         THEN Ret(Failure(<<"ItemTables have different Dimensions.">>), <<>>)
         ELSE Ret(OK, <<>>))

compare_tables(T, el1, el2, msg) ==
    Then(Header("compare_tables", T, el1, el2),
         IF el1.rows # el2.rows
         THEN Ret(Failure(<<"Tables have different numbers of rows.">>), <<>>)
         ELSE IF el1.cols # el2.cols
         THEN Ret(Failure(<<"Tables have different numbers of columns.">>), <<>>)
         ELSE Called("compare_tables", "compare_ndmappings", el1, el2,
                     compare_ndmappings(T, el1, el2, msg)))

\* pandas.util.testing.assert_frame_equal returns normally (frames of integer
\* columns, compared exactly)
FrameEqual(df1, df2) == df1 = df2

compare_dframe(T, el1, el2, msg) ==
    Then(Header("compare_dframe", T, el1, el2),
         Called("compare_dframe", "assert_frame_equal", el1.data, el2.data,
                IF FrameEqual(el1.data, el2.data) THEN Ret(OK, <<>>)
                ELSE IF msg = None THEN Ret(TypeError, <<>>)
                ELSE Ret(Failure(<<msg, ": ", "DataFrame are different">>), <<>>)))

_compare_grids(T, el1, el2, name) ==
    IF Len(Keys(el1)) # Len(Keys(el2))
    THEN Ret(Failure(<<name, "s have different numbers of items.">>), <<>>)
    ELSE IF KeySet(el1) # KeySet(el2)
    THEN Ret(Failure(<<name, "s have different keys.">>), <<>>)
    ELSE IF PyLen(el1) # PyLen(el2)
    THEN Ret(Failure(<<name, "s have different depths.">>), <<>>)
    ELSE ZipAssertEqual(T, Values(el1), Values(el2))

compare_grids(T, el1, el2) ==
    Then(Header("compare_grids", T, el1, el2),
         Called("compare_grids", "_compare_grids", el1, el2,
                _compare_grids(T, el1, el2, "AxisLayout")))

compare_options(T, options1, options2) ==
    AssertEqual(T, options1.kwargs, options2.kwargs, None)

-----------------------------------------------------------------------------
(* assertEqual *)

Annotations ==
    {"compare_hline", "compare_vline", "compare_spline", "compare_arrow",
     "compare_text"}

\* the comparators whose whole body is the header and one compare_arrays call
DataMsg ==
    [compare_curve |-> "Curve data", compare_raster |-> "Raster data",
     compare_heatmap |-> "HeatMap data",
     compare_distribution |-> "Distribution data",
     compare_timeseries |-> "TimeSeries data",
     compare_bivariate |-> "Bivariate data",
     compare_regression |-> "Regression data"]

\* the classmethods of Comparison that getattr(cls, name) finds
Comparators ==
    {"simple_equality", "compare_floats", "compare_arrays", "compare_dimensions",
     "compare_dimensioned", "compare_elements", "compare_overlays",
     "compare_layouttrees", "compare_matrix", "compare_histogram",
     "compare_itemtables", "compare_tables", "compare_contours",
     "compare_points", "compare_vectorfield", "compare_dframe",
     "compare_gridlayout", "compare_adjointlayouts", "compare_ndoverlays",
     "compare_grids", "compare_holomap", "compare_options"}
    \cup Annotations \cup DOMAIN DataMsg

\* the default of a comparator's msg parameter
DefaultMsg(fn) ==
    CASE fn = "compare_floats" -> "Floats"
      [] fn = "compare_arrays" -> "Arrays"
      [] fn = "compare_matrix" -> "Matrix data"
      [] fn = "compare_holomap" -> "HoloMaps"
      [] fn = "compare_hline" -> "HLine"
      [] fn = "compare_vline" -> "VLine"
      [] fn = "compare_spline" -> "Spline"
      [] fn = "compare_arrow" -> "Arrow"
      [] fn = "compare_text" -> "Text"
      [] OTHER -> None

\* the call fn(first, second, msg) of a classmethod of Comparison
Invoke(T, fn, first, second, msg) ==
    CASE fn = "simple_equality" -> simple_equality(first, second, msg)
      [] fn = "compare_floats" -> compare_floats(first, second, msg)
      [] fn = "compare_arrays" -> compare_arrays(first, second, msg)
      [] fn = "compare_dimensions" -> compare_dimensions(first, second)
      [] fn = "compare_dimensioned" -> compare_dimensioned(T, first, second)
      [] fn = "compare_elements" -> compare_elements(T, first, second)
      [] fn = "compare_overlays" -> compare_overlays(T, first, second)
      [] fn = "compare_layouttrees" -> compare_layouttrees(T, first, second)
      [] fn \in Annotations -> compare_any_annotation(fn, T, first, second)
      [] fn = "compare_matrix" -> compare_matrix(T, first, second, msg)
      [] fn \in DOMAIN DataMsg -> compare_data(fn, T, first, second, DataMsg[fn])
      [] fn = "compare_histogram" -> compare_histogram(T, first, second)
      [] fn = "compare_itemtables" -> compare_itemtables(T, first, second)
      [] fn = "compare_tables" -> compare_tables(T, first, second, msg)
      [] fn = "compare_contours" -> compare_contours(T, first, second)
      [] fn = "compare_points" ->
            compare_sized_data(fn, T, first, second,
                "Points objects have different numbers of points.", "Points data")
      [] fn = "compare_vectorfield" ->
            compare_sized_data(fn, T, first, second,
                "VectorField objects have different numbers of vectors.",
                "VectorField data")
      [] fn = "compare_dframe" -> compare_dframe(T, first, second, msg)
      [] fn = "compare_gridlayout" -> compare_gridlayout(T, first, second)
      [] fn = "compare_adjointlayouts" -> compare_adjointlayouts(T, first, second)
      [] fn = "compare_ndoverlays" -> compare_ndoverlays(T, first, second)
      [] fn = "compare_grids" -> compare_grids(T, first, second)
      [] fn = "compare_holomap" -> compare_holomap(T, first, second, msg)
      [] fn = "compare_options" -> compare_options(T, first, second)

NoEntry == [kind |-> "none", name |-> ""]

\* getattr(cls, name)
Getattr(name) ==
    IF name \in Comparators THEN Func(name)
    ELSE [kind |-> "AttributeError", name |-> name]

\* a slip: an entry that is a method name is not looked up on cls, and the
\* string itself is called
ResolveAsserter_NameNotResolved(T, first, second) ==
    LET found == IF first.type = second.type /\ first.type \in DOMAIN T
                 THEN T[first.type] ELSE NoEntry
    IN  IF found.kind = "none" THEN Func("simple_equality") ELSE found

\* lines 62-74: the value of asserter when it is called
ResolveAsserter(T, first, second) ==
    LET found == IF first.type = second.type /\ first.type \in DOMAIN T
                 THEN T[first.type] ELSE NoEntry
        resolved == IF found.kind = "str" THEN Getattr(found.name) ELSE found
    IN  IF resolved.kind = "none" THEN Func("simple_equality") ELSE resolved

AssertEqual(T, first, second, msg) ==
    LET asserter == ResolveAsserter(T, first, second)
    IN  IF asserter.kind # "func"
        THEN Ret(IF asserter.kind = "str" THEN TypeError
                 ELSE [exc |-> asserter.kind, text |-> <<>>], <<>>)
        ELSE Called("assertEqual", asserter.name, first, second,
                    Invoke(T, asserter.name, first, second,
                           IF msg = None THEN DefaultMsg(asserter.name) ELSE msg))

-----------------------------------------------------------------------------
(* The program: a sequence of calls made by one thread *)

NoCall == [fn |-> "", first |-> Str(""), second |-> Str(""), msg |-> None]

\* what unittest.TestCase.__init__ registers before ComparisonTestCase does
TestCaseDefaults ==
    [dict |-> Named("assertDictEqual"), list |-> Named("assertListEqual"),
     tuple |-> Named("assertTupleEqual"), set |-> Named("assertSetEqual"),
     frozenset |-> Named("assertSetEqual"), str |-> Named("assertMultiLineEqual")]

\* for k, v in registry.items(): self.addTypeEqualityFunc(k, v)
AddTypeEqualityFuncs(funcs, registry) ==
    [k \in DOMAIN funcs \cup DOMAIN registry |->
        IF k \in DOMAIN registry THEN registry[k] ELSE funcs[k]]

Init ==
    /\ equality_type_funcs = EmptyDict
    /\ testcase_funcs = EmptyDict
    /\ testcases = 0
    /\ registrations = 0
    /\ pc = "idle"
    /\ call = NoCall
    /\ outcome = OK
    /\ log = <<>>

\* Comparison.register()
Register ==
    /\ pc = "idle"
    /\ registrations < MaxRegistrations
    /\ equality_type_funcs' = register(equality_type_funcs)
    /\ registrations' = registrations + 1
    /\ UNCHANGED <<testcase_funcs, testcases, pc, call, outcome, log>>

\* ComparisonTestCase(...)
NewTestCase ==
    /\ pc = "idle"
    /\ testcases < MaxTestCases
    /\ registrations < MaxRegistrations
    /\ equality_type_funcs' = register(equality_type_funcs)
    /\ testcase_funcs' =
          AddTypeEqualityFuncs(TestCaseDefaults, register(equality_type_funcs))
    /\ testcases' = testcases + 1
    /\ registrations' = registrations + 1
    /\ UNCHANGED <<pc, call, outcome, log>>

\* the call fn(first, second, msg) ran to its end r
Returned(fn, first, second, msg, r) ==
    /\ pc = "idle"
    /\ pc' = "returned"
    /\ call' = [fn |-> fn, first |-> first, second |-> second, msg |-> msg]
    /\ outcome' = r.out
    /\ log' = r.log
    /\ UNCHANGED <<equality_type_funcs, testcase_funcs, testcases, registrations>>

\* Comparison.assertEqual(first, second, msg)
CallAssertEqual(first, second, msg) ==
    Returned("assertEqual", first, second, msg,
             AssertEqual(equality_type_funcs, first, second, msg))

\* Comparison.compare_dimensions(dim1, dim2)
CallCompareDimensions(dim1, dim2) ==
    Returned("compare_dimensions", dim1, dim2, None, compare_dimensions(dim1, dim2))

\* Comparison.compare_dimension_lists(dlist1, dlist2, msg)
CallCompareDimensionLists(dlist1, dlist2, msg) ==
    Returned("compare_dimension_lists", List(dlist1), List(dlist2), msg,
             compare_dimension_lists(equality_type_funcs, dlist1, dlist2, msg))

\* Comparison.compare_trees(el1, el2, msg)
CallCompareTrees(el1, el2, msg) ==
    Returned("compare_trees", el1, el2, msg,
             compare_trees(equality_type_funcs, el1, el2, msg))

\* the caller goes on to its next call
Return ==
    /\ pc = "returned"
    /\ pc' = "idle"
    /\ call' = NoCall
    /\ outcome' = OK
    /\ log' = <<>>
    /\ UNCHANGED <<equality_type_funcs, testcase_funcs, testcases, registrations>>

-----------------------------------------------------------------------------
(* Inputs *)

SeqsUpTo(S, n) == UNION {[1..k -> S] : k \in 0..n}

Messages == {None, "msg"}

D0 == Dim("x", FALSE, 0, "None", "", 0, "")

\* a Curve (or an instance of a subclass of Curve) holding one sample
CurveOf(type, oid, sample) == [Blank(type, oid) EXCEPT !.data = NdArray(<<sample>>)]

\* Values of registered and unregistered types.  The two objects of type
\* "CurveSubclass" are instances of a class derived from Curve.
Pool ==
    {Str("a"), Str("b"),
     Float("float", 0), Float("float", 1), Float("float", 5), Float("float64", 0),
     D0, [D0 EXCEPT !.name = "y"], [D0 EXCEPT !.unit = "m"],
     CurveOf("Curve", 1, 0), CurveOf("Curve", 2, 0), CurveOf("Curve", 3, 5),
     CurveOf("CurveSubclass", 4, 0), CurveOf("CurveSubclass", 5, 5)}

-----------------------------------------------------------------------------
(* Specifications *)

CallOnPool ==
    /\ pc = "idle"
    /\ \E first \in Pool, second \in Pool, msg \in Messages :
          CallAssertEqual(first, second, msg)

Next == Register \/ NewTestCase \/ CallOnPool \/ Return

Spec == Init /\ [][Next]_vars

\* assertEqual as a function of the dispatch table it reads: the table holds
\* bound methods or method names for any of these types
DispatchKeys == {"float", "Dimension", "Curve"}

DispatchTables ==
    UNION {{[k \in K |-> IF k \in N THEN Named(register(EmptyDict)[k].name)
                         ELSE register(EmptyDict)[k]] : N \in SUBSET K} :
           K \in SUBSET DispatchKeys}

InitDispatch ==
    /\ equality_type_funcs \in DispatchTables
    /\ testcase_funcs = EmptyDict
    /\ testcases = 0
    /\ registrations = 0
    /\ pc = "idle"
    /\ call = NoCall
    /\ outcome = OK
    /\ log = <<>>

NextDispatch == Register \/ CallOnPool \/ Return

SpecDispatch == InitDispatch /\ [][NextDispatch]_vars

-----------------------------------------------------------------------------
(* C1 *)

\* the comparator invocations assertEqual itself made on the arguments of the call
InvokedByAssertEqual ==
    {i \in DOMAIN log : /\ log[i].via = "assertEqual"
                        /\ log[i].first = Ref(call.first)
                        /\ log[i].second = Ref(call.second)}

ExactTypeRegistered ==
    /\ call.first.type = call.second.type
    /\ call.first.type \in DOMAIN equality_type_funcs

\* C1: assertEqual(first, second) invokes exactly one comparator on (first,
\* second): the one registered for their common exact type (whether the table
\* holds the method or its name), and simple_equality in every other case, which
\* raises failureException if and only if first == second is false.
C1_DispatchByExactType ==
    (pc = "returned" /\ call.fn = "assertEqual") =>
        /\ InvokedByAssertEqual = {1}
        /\ ExactTypeRegistered =>
              log[1].fn = equality_type_funcs[call.first.type].name
        /\ ~ExactTypeRegistered =>
              /\ log[1].fn = "simple_equality"
              /\ Len(log) = 1
              /\ outcome.exc = "AssertionError" <=>
                    PyEq(call.first, call.second) = "False"
              /\ outcome.exc = "none" <=> PyEq(call.first, call.second) = "True"

\* a comparator registered by name was resolved, invoked and found a difference
C1_Witness ==
    /\ pc = "returned"
    /\ call.fn = "assertEqual"
    /\ "Curve" \in DOMAIN equality_type_funcs
    /\ equality_type_funcs["Curve"].kind = "str"
    /\ call.first.type = "Curve"
    /\ call.second.type = "Curve"
    /\ log[1].fn = "compare_curve"
    /\ outcome.exc = "AssertionError"

-----------------------------------------------------------------------------
(* Inputs to the per-type comparators *)

Dm == [D0 EXCEPT !.unit = "m"]

\* dimension lists that agree, differ in one dimension, differ in length
HeaderDimLists == {<<D0>>, <<Dm>>, <<D0, D0>>}

\* an object of the given type with the header every first argument has
Base(type) ==
    [Blank(type, 1) EXCEPT !.value_dimensions = <<D0>>, !.key_dimensions = <<D0>>]

\* other objects: obj with any of its four header fields changed
HeaderVariants(obj) ==
    {[obj EXCEPT !.oid = 2, !.value = v, !.label = l,
                 !.value_dimensions = vd, !.key_dimensions = kd] :
        v \in {obj.value, "Other"}, l \in {"", "l"},
        vd \in HeaderDimLists, kd \in HeaderDimLists}

\* samples that are equal, equal to 6 decimals only, and different
Samples == {0, 1, 5}

HeaderPasses(el1, el2) ==
    compare_dimensioned(equality_type_funcs, el1, el2).out.exc = "none"

BothOfType(types) == call.first.type \in types /\ call.second.type \in types

-----------------------------------------------------------------------------
(* C2 *)

FirstMatrices ==
    {[Base("Matrix") EXCEPT !.data = NdArray(<<s>>), !.bounds = b] :
        s \in Samples, b \in {0, 1}}

SecondMatrices(first) ==
    {first} \cup
    UNION {HeaderVariants([first EXCEPT !.data = NdArray(<<s>>), !.bounds = b]) :
              s \in Samples, b \in {0, 1}}

CallOnMatrices ==
    /\ pc = "idle"
    /\ \E first \in FirstMatrices : \E second \in SecondMatrices(first) :
          \E msg \in Messages : CallAssertEqual(first, second, msg)

NextMatrix == Register \/ NewTestCase \/ CallOnMatrices \/ Return

SpecMatrix == Init /\ [][NextMatrix]_vars

MatricesDiffer(m1, m2) ==
    \/ m1.value # m2.value
    \/ m1.label # m2.label
    \/ m1.value_dimensions # m2.value_dimensions
    \/ m1.key_dimensions # m2.key_dimensions
    \/ m1.data # m2.data
    \/ m1.bounds # m2.bounds

\* C2: Comparison.assertEqual on two Matrix objects raises an AssertionError
\* if and only if they differ in value, label, value dimensions, key
\* dimensions, data array or bounds, and raises nothing else.
C2_MatrixRaisesIffDifferent ==
    (pc = "returned" /\ call.fn = "assertEqual" /\ BothOfType({"Matrix"})) =>
        /\ outcome.exc \in {"none", "AssertionError"}
        /\ outcome.exc = "AssertionError" <=> MatricesDiffer(call.first, call.second)

-----------------------------------------------------------------------------
(* C3 *)

\* elements held by containers: two equal curves and one that differs
Leaves == {CurveOf("Curve", 101, 0), CurveOf("Curve", 102, 0), CurveOf("Curve", 103, 5)}

FirstAdjointLayouts ==
    {[Base("AdjointLayout") EXCEPT !.items = items] :
        items \in SeqsUpTo(Leaves, MaxLen) \ {<<>>}}

SecondAdjointLayouts(first) ==
    {first} \cup
    {[first EXCEPT !.oid = 2, !.label = l, !.items = items] :
        l \in {"", "l"}, items \in SeqsUpTo(Leaves, MaxLen) \ {<<>>}}

CallOnAdjointLayouts ==
    /\ pc = "idle"
    /\ \E first \in FirstAdjointLayouts : \E second \in SecondAdjointLayouts(first) :
          \E msg \in Messages : CallAssertEqual(first, second, msg)

NextAdjoint == Register \/ NewTestCase \/ CallOnAdjointLayouts \/ Return

SpecAdjoint == Init /\ [][NextAdjoint]_vars

\* some element of el1 is not equal, under assertEqual, to the element of el2
\* at the same position
SomeElementDiffers(el1, el2) ==
    \E i \in DOMAIN el1.items \cap DOMAIN el2.items :
        AssertEqual(equality_type_funcs, el1.items[i], el2.items[i], None).out.exc
            # "none"

\* C3: compare_adjointlayouts raises failureException whenever the two layouts
\* pass the value/label/dimension checks and some element of el1 is not equal
\* to the element at the same position of el2.
C3_AdjointElementsCompared ==
    (/\ pc = "returned"
     /\ call.fn = "assertEqual"
     /\ log[1].fn = "compare_adjointlayouts"
     /\ HeaderPasses(call.first, call.second)
     /\ SomeElementDiffers(call.first, call.second))
    => outcome.exc = "AssertionError"

-----------------------------------------------------------------------------
(* C4 *)

DataFrame(s) == [type |-> "DataFrame", v |-> s]

DFrameTypes == {"DataFrameView", "PandasDFrame", "DFrame"}

FirstDFrames == {[Base(t) EXCEPT !.data = DataFrame(<<0>>)] : t \in DFrameTypes}

SecondDFrames(first) ==
    {first} \cup
    UNION {HeaderVariants([first EXCEPT !.data = DataFrame(<<s>>)]) : s \in {0, 5}}

CallOnDFrames ==
    /\ pc = "idle"
    /\ \E first \in FirstDFrames : \E second \in SecondDFrames(first) :
          \E msg \in Messages : CallAssertEqual(first, second, msg)

NextDFrame == Register \/ NewTestCase \/ CallOnDFrames \/ Return

SpecDFrame == Init /\ [][NextDFrame]_vars

\* C4: a comparison that detects a difference raises failureException and no
\* other kind of exception; assertEqual without a msg on two frame objects with
\* matching dimensions and different frames raises failureException with a
\* message describing the difference.
C4_OnlyFailureException ==
    (pc = "returned" /\ call.fn = "assertEqual") =>
        /\ outcome.exc \in {"none", "AssertionError"}
        /\ (/\ log[1].fn = "compare_dframe"
            /\ call.msg = None
            /\ HeaderPasses(call.first, call.second)
            /\ call.first.data # call.second.data)
           => (outcome.exc = "AssertionError" /\ outcome.text # <<>>)

-----------------------------------------------------------------------------
(* C5 *)

OrderedDict(s) == [type |-> "OrderedDict", v |-> s]

FirstItemTables ==
    {[Base("ItemTable") EXCEPT !.rows = 1, !.cols = 2, !.data = OrderedDict(<<0>>)]}

SecondItemTables(first) ==
    {first} \cup
    UNION {HeaderVariants([first EXCEPT !.rows = r, !.data = OrderedDict(<<s>>)]) :
              r \in {1, 2}, s \in {0, 5}}

CallOnItemTables ==
    /\ pc = "idle"
    /\ \E first \in FirstItemTables : \E second \in SecondItemTables(first) :
          \E msg \in Messages : CallAssertEqual(first, second, msg)

NextItemTable == Register \/ NewTestCase \/ CallOnItemTables \/ Return

SpecItemTable == Init /\ [][NextItemTable]_vars

\* C5: compare_itemtables raises failureException whenever two ItemTables with
\* equal value, label, dimension lists, rows and cols differ in the values they
\* hold.
C5_ItemTableValuesCompared ==
    (/\ pc = "returned"
     /\ call.fn = "assertEqual"
     /\ log[1].fn = "compare_itemtables"
     /\ HeaderPasses(call.first, call.second)
     /\ call.first.rows = call.second.rows
     /\ call.first.cols = call.second.cols
     /\ call.first.data # call.second.data)
    => outcome.exc = "AssertionError"

-----------------------------------------------------------------------------
(* C6 *)

\* the table Comparison.register() is written to produce: one comparator per
\* registered type
ExpectedRegistry ==
    [float |-> Func("compare_floats"), float32 |-> Func("compare_floats"),
     float64 |-> Func("compare_floats"), ndarray |-> Func("compare_arrays"),
     Dimension |-> Func("compare_dimensions"),
     Dimensioned |-> Func("compare_dimensioned"),
     Element |-> Func("compare_elements"),
     Overlay |-> Func("compare_overlays"),
     LayoutTree |-> Func("compare_layouttrees"),
     VLine |-> Func("compare_vline"), HLine |-> Func("compare_hline"),
     Spline |-> Func("compare_spline"), Arrow |-> Func("compare_arrow"),
     Text |-> Func("compare_text"), Matrix |-> Func("compare_matrix"),
     Curve |-> Func("compare_curve"), Histogram |-> Func("compare_histogram"),
     Raster |-> Func("compare_raster"), HeatMap |-> Func("compare_heatmap"),
     ItemTable |-> Func("compare_itemtables"), Table |-> Func("compare_tables"),
     Contours |-> Func("compare_contours"), Points |-> Func("compare_points"),
     VectorField |-> Func("compare_vectorfield"),
     DataFrameView |-> Func("compare_dframe"),
     PandasDFrame |-> Func("compare_dframe"), DFrame |-> Func("compare_dframe"),
     Bivariate |-> Func("compare_bivariate"),
     Distribution |-> Func("compare_distribution"),
     Regression |-> Func("compare_regression"),
     TimeSeries |-> Func("compare_timeseries"),
     NdLayout |-> Func("compare_gridlayout"),
     AdjointLayout |-> Func("compare_adjointlayouts"),
     NdOverlay |-> Func("compare_ndoverlays"),
     AxisLayout |-> Func("compare_grids"), HoloMap |-> Func("compare_holomap"),
     Options |-> Func("compare_options")]

\* C6: once Comparison.register() has run, however often and in whatever order
\* with assertEqual calls, equality_type_funcs maps the same types to the same
\* comparators (no comparison modifies it), and every entry of it has been
\* passed to addTypeEqualityFunc by each ComparisonTestCase constructed.
C6_RegistryStable ==
    /\ registrations = 0 => equality_type_funcs = EmptyDict
    /\ registrations > 0 => equality_type_funcs = ExpectedRegistry
    /\ testcases > 0 =>
          \A k \in DOMAIN equality_type_funcs :
              /\ k \in DOMAIN testcase_funcs
              /\ testcase_funcs[k] = equality_type_funcs[k]

\* a comparison has run through a registered comparator after register() was
\* called a second time, with a test case constructed
C6_Witness ==
    /\ registrations >= 2
    /\ testcases >= 1
    /\ pc = "returned"
    /\ call.fn = "assertEqual"
    /\ log[1].fn = "compare_curve"
    /\ outcome.exc = "AssertionError"

-----------------------------------------------------------------------------
(* C7 *)

AllDimensions ==
    {Dim(n, c, r, t, u, v, f) :
        n \in {"x", "y"}, c \in BOOLEAN, r \in {0, 1}, t \in {"None", "int"},
        u \in {"", "m"}, v \in {0, 1}, f \in {"", "fmt"}}

CallOnDimensions ==
    /\ pc = "idle"
    /\ \E dim1 \in AllDimensions, dim2 \in AllDimensions :
          CallCompareDimensions(dim1, dim2)

NextDimensions == Register \/ NewTestCase \/ CallOnDimensions \/ Return

SpecDimensions == Init /\ [][NextDimensions]_vars

\* the seven attributes, in the order the claim gives, and their failures
DimensionAttributes ==
    <<"name", "cyclic", "range", "dtype", "unit", "values", "format_string">>

AttributeFailure ==
    [name |-> "Dimension names mismatched",
     cyclic |-> "Dimension cyclic declarations mismatched.",
     range |-> "Dimension ranges mismatched",
     dtype |-> "Dimension type declarations mismatched",
     unit |-> "Dimension unit declarations mismatched",
     values |-> "Dimension value declarations mismatched",
     format_string |-> "Dimension format string declarations mismatched"]

Disagreements(dim1, dim2) ==
    {i \in DOMAIN DimensionAttributes :
        dim1[DimensionAttributes[i]] # dim2[DimensionAttributes[i]]}

Minimum(S) == CHOOSE i \in S : \A j \in S : i <= j

\* C7: compare_dimensions raises nothing if and only if the dimensions agree
\* on name, cyclic, range, type, unit, values and format_string; otherwise it
\* raises the failure of the first attribute, in that order, they disagree on.
C7_FirstDisagreement ==
    (pc = "returned" /\ call.fn = "compare_dimensions") =>
        IF Disagreements(call.first, call.second) = {}
        THEN outcome = OK
        ELSE outcome =
               Failure(<<AttributeFailure[DimensionAttributes[
                           Minimum(Disagreements(call.first, call.second))]]>>)

\* the names and the ranges differ, and the name failure is the one raised
C7_Witness ==
    /\ pc = "returned"
    /\ call.fn = "compare_dimensions"
    /\ call.first.name # call.second.name
    /\ call.first.range # call.second.range
    /\ outcome = Failure(<<"Dimension names mismatched">>)

-----------------------------------------------------------------------------
(* C9 *)

DimensionLists == SeqsUpTo({D0, Dm, [D0 EXCEPT !.name = "y"]}, MaxLen)

CallOnDimensionLists ==
    /\ pc = "idle"
    /\ \E dlist1 \in DimensionLists, dlist2 \in DimensionLists :
          \E msg \in {"Dimension lists", "Key dimension list"} :
              CallCompareDimensionLists(dlist1, dlist2, msg)

NextDimensionLists == Register \/ NewTestCase \/ CallOnDimensionLists \/ Return

SpecDimensionLists == Init /\ [][NextDimensionLists]_vars

PairPasses(a, b) ==
    AssertEqual(equality_type_funcs, a, b, None).out.exc = "none"

\* C9: compare_dimension_lists raises nothing if and only if the lists have the
\* same length and the dimensions at every index pass assertEqual; lists of
\* different lengths raise '<msg> mismatched' before any pair is compared.
C9_DimensionLists ==
    (pc = "returned" /\ call.fn = "compare_dimension_lists") =>
        LET dlist1 == call.first.v
            dlist2 == call.second.v
        IN  /\ outcome.exc = "none" <=>
                  /\ Len(dlist1) = Len(dlist2)
                  /\ \A i \in DOMAIN dlist1 : PairPasses(dlist1[i], dlist2[i])
            /\ Len(dlist1) # Len(dlist2) =>
                  /\ outcome = Failure(<<call.msg, " mismatched">>)
                  /\ log = <<>>

\* one list is a proper prefix of the other, and the comparison fails on length
C9_Witness ==
    /\ pc = "returned"
    /\ call.fn = "compare_dimension_lists"
    /\ Len(call.first.v) > Len(call.second.v)
    /\ Len(call.second.v) > 0
    /\ \A i \in DOMAIN call.second.v : call.first.v[i] = call.second.v[i]
    /\ outcome = Failure(<<call.msg, " mismatched">>)

-----------------------------------------------------------------------------
(* C10 *)

Paths == {"A", "B", "C"}

PathLists ==
    {keys \in SeqsUpTo(Paths, MaxLen) :
        \A i, j \in DOMAIN keys : keys[i] = keys[j] => i = j}

TreeLeaves == {CurveOf("Curve", 101, 0), CurveOf("Curve", 103, 5)}

Trees(type, oid) ==
    UNION {{[Base(type) EXCEPT !.oid = oid, !.keys = keys, !.items = items] :
               items \in [DOMAIN keys -> TreeLeaves]} :
           keys \in PathLists}

CallOnTrees ==
    /\ pc = "idle"
    /\ \E type \in {"LayoutTree", "Overlay"} :
          \E el1 \in Trees(type, 1), el2 \in Trees(type, 2) :
             \/ CallCompareTrees(el1, el2, "Trees")
             \/ CallAssertEqual(el1, el2, None)

NextTrees == Register \/ NewTestCase \/ CallOnTrees \/ Return

SpecTrees == Init /\ [][NextTrees]_vars

\* the pairs of elements a call handed to assertEqual
ComparedElements ==
    {<<log[i].first, log[i].second>> :
        i \in {j \in DOMAIN log : /\ log[j].via = "assertEqual"
                                  /\ log[j].first.type = "Curve"}}

SamePathElements(el1, el2) ==
    {<<Ref(el1.items[i]), Ref(el2.items[i])>> : i \in DOMAIN el1.items}

\* what compare_trees(el1, el2, msg) is to do
TreesCompared(el1, el2, msg) ==
    IF Len(el1.keys) # Len(el2.keys)
    THEN /\ outcome = Failure(<<msg, " have mismatched path counts.">>)
         /\ ComparedElements = {}
    ELSE IF el1.keys # el2.keys
    THEN /\ outcome = Failure(<<msg, " have mismatched paths.">>)
         /\ ComparedElements = {}
    ELSE /\ ComparedElements \subseteq SamePathElements(el1, el2)
         /\ outcome.exc = "none" <=>
               \A i \in DOMAIN el1.items : PairPasses(el1.items[i], el2.items[i])
         /\ outcome.exc = "none" => ComparedElements = SamePathElements(el1, el2)

\* C10: compare_trees, called directly or for a LayoutTree or an Overlay,
\* raises 'have mismatched path counts' when the numbers of paths differ,
\* 'have mismatched paths' when the counts agree and the ordered path lists
\* differ, and otherwise compares each value of el1 with the value of el2
\* under the same path, passing if and only if all those pairs pass.
C10_Trees ==
    /\ (pc = "returned" /\ call.fn = "compare_trees") =>
          TreesCompared(call.first, call.second, call.msg)
    /\ (/\ pc = "returned"
        /\ call.fn = "assertEqual"
        /\ log[1].fn \in {"compare_layouttrees", "compare_overlays"}) =>
          TreesCompared(call.first, call.second,
                        IF log[1].fn = "compare_overlays" THEN "Overlays"
                        ELSE "LayoutTrees")

\* two trees with the same paths in a different order fail on their paths
C10_Witness ==
    /\ pc = "returned"
    /\ call.fn = "assertEqual"
    /\ log[1].fn = "compare_layouttrees"
    /\ Len(call.first.keys) = 2
    /\ call.first.keys # call.second.keys
    /\ KeySet(call.first) = KeySet(call.second)
    /\ outcome = Failure(<<"LayoutTrees", " have mismatched paths.">>)

-----------------------------------------------------------------------------
(* C8 *)

\* the registered types whose instances are Dimensioned objects
DimensionedTypes ==
    DOMAIN register(EmptyDict)
        \ {"float", "float32", "float64", "ndarray", "Dimension", "Options"}

\* an object of a registered type, with data of the kind its comparator reads
TypeBase(type) ==
    [Base(type) EXCEPT
        !.data = IF type = "Contours" THEN List(<<NdArray(<<0>>)>>)
                 ELSE IF type \in DFrameTypes THEN DataFrame(<<0>>)
                 ELSE IF type = "ItemTable" THEN OrderedDict(<<0>>)
                 ELSE NdArray(<<0>>),
        !.edges = NdArray(<<0>>), !.values = NdArray(<<0>>),
        !.rows = 1, !.cols = 1, !.depth = 1,
        !.keys = <<"A">>, !.items = <<CurveOf("Curve", 101, 0)>>]

\* obj with a difference in what the comparators read after the header
ChangedAfterHeader(obj) ==
    {[obj EXCEPT !.data = IF obj.data.type = "list" THEN List(<<NdArray(<<5>>)>>)
                          ELSE [obj.data EXCEPT !.v = <<5>>],
                 !.edges = NdArray(<<5>>)],
     [obj EXCEPT !.bounds = 1, !.rows = 2],
     [obj EXCEPT !.keys = <<"B">>],
     [obj EXCEPT !.items = <<CurveOf("Curve", 103, 5)>>]}

CallOnDimensioned ==
    /\ pc = "idle"
    /\ \E type \in DimensionedTypes :
          \E changed \in {TypeBase(type)} \cup ChangedAfterHeader(TypeBase(type)) :
             \E second \in {TypeBase(type)} \cup HeaderVariants(changed) :
                \E msg \in Messages : CallAssertEqual(TypeBase(type), second, msg)

NextDimensioned == Register \/ NewTestCase \/ CallOnDimensioned \/ Return

SpecDimensioned == Init /\ [][NextDimensioned]_vars

DimensionedComparators == {register(EmptyDict)[t].name : t \in DimensionedTypes}

\* after the comparator assertEqual chose, only header checks were made
OnlyHeaderCompared ==
    \A i \in 2..Len(log) :
        /\ log[i].fn \in {"compare_annotation", "compare_dimensioned",
                          "compare_labelled_data", "compare_dimension_lists",
                          "simple_equality", "compare_dimensions"}
        /\ log[i].via = "assertEqual" => log[i].first.type \in {"str", "Dimension"}

\* the failure two different dimension lists are to raise
DimensionListFailure(dlist1, dlist2, msg) ==
    IF Len(dlist1) # Len(dlist2) THEN Failure(<<msg, " mismatched">>)
    ELSE LET k == Minimum({i \in DOMAIN dlist1 : dlist1[i] # dlist2[i]})
         IN  Failure(<<AttributeFailure[DimensionAttributes[
                          Minimum(Disagreements(dlist1[k], dlist2[k]))]]>>)

\* the failure is that of the earliest differing header field, in the order
\* value, label, value dimensions, key dimensions, and nothing else was compared
HeaderCheckedFirst(el1, el2) ==
    IF el1.value # el2.value
    THEN outcome = Failure(<<"Value labels mismatched.">>) /\ OnlyHeaderCompared
    ELSE IF el1.label # el2.label
    THEN outcome = Failure(<<"Labels mismatched.">>) /\ OnlyHeaderCompared
    ELSE IF el1.value_dimensions # el2.value_dimensions
    THEN /\ outcome = DimensionListFailure(el1.value_dimensions,
                                           el2.value_dimensions,
                                           "Value dimension list")
         /\ OnlyHeaderCompared
    ELSE IF el1.key_dimensions # el2.key_dimensions
    THEN /\ outcome = DimensionListFailure(el1.key_dimensions,
                                           el2.key_dimensions,
                                           "Key dimension list")
         /\ OnlyHeaderCompared
    ELSE TRUE

\* the objects differ in their data, keys, edges, bounds or rows
DiffersAfterHeader(el1, el2) ==
    \/ el1.data # el2.data
    \/ el1.edges # el2.edges
    \/ el1.bounds # el2.bounds
    \/ el1.rows # el2.rows
    \/ el1.keys # el2.keys
    \/ el1.items # el2.items

\* C8 as stated: every registered comparator for a dimensioned object checks
\* value, label, the value dimension list and the key dimension list, in that
\* order, before anything else: two objects that differ in a header field and
\* in their data (or keys, edges, bounds, rows) fail with the failure of the
\* earliest differing header field and no data comparison is made.
C8_EveryComparatorHeaderFirst ==
    (/\ pc = "returned"
     /\ call.fn = "assertEqual"
     /\ log[1].fn \in DimensionedComparators
     /\ DiffersAfterHeader(call.first, call.second))
    => HeaderCheckedFirst(call.first, call.second)

\* C8 as amended: the same of every registered comparator for a dimensioned
\* object other than compare_elements (registered for the exact type Element);
\* compare_elements checks value, then label, and then compares the data
\* without comparing either dimension list.
C8_HeaderFirstExceptElements ==
    (pc = "returned" /\ call.fn = "assertEqual") =>
        /\ log[1].fn \in DimensionedComparators \ {"compare_elements"} =>
              HeaderCheckedFirst(call.first, call.second)
        /\ log[1].fn = "compare_elements" =>
              IF call.first.value # call.second.value
              THEN outcome = Failure(<<"Value labels mismatched.">>)
                   /\ OnlyHeaderCompared
              ELSE IF call.first.label # call.second.label
              THEN outcome = Failure(<<"Labels mismatched.">>)
                   /\ OnlyHeaderCompared
              ELSE /\ \A i \in DOMAIN log :
                         log[i].fn \notin {"compare_dimensioned",
                                           "compare_dimension_lists"}
                   /\ outcome.exc = "none" <=>
                         AlmostEqual(call.first.data, call.second.data)

\* two curves differ in their label, their key dimensions and their data, and
\* the label failure is raised
C8_Witness ==
    /\ pc = "returned"
    /\ call.fn = "assertEqual"
    /\ log[1].fn = "compare_curve"
    /\ call.first.value = call.second.value
    /\ call.first.label # call.second.label
    /\ call.first.key_dimensions # call.second.key_dimensions
    /\ call.first.data # call.second.data
    /\ outcome = Failure(<<"Labels mismatched.">>)

-----------------------------------------------------------------------------
(* C11 *)

\* the types register() gives compare_holomap, compare_tables,
\* compare_gridlayout and compare_grids
MappingTypes == {"HoloMap", "Table", "NdLayout", "AxisLayout"}

MappingKeys == 0..(MaxLen - 1)

\* el.keys(): the keys of a mapping are distinct and come in the order the
\* mapping iterates in
KeyLists ==
    {ks \in SeqsUpTo(MappingKeys, MaxLen) :
        \A i \in DOMAIN ks, j \in DOMAIN ks : i # j => ks[i] # ks[j]}

\* mappings of every key list to the leaves, items[i] stored under keys[i]
Mappings(type) ==
    UNION {{[Base(type) EXCEPT !.keys = ks, !.items = items,
                               !.rows = Len(ks), !.cols = 1, !.depth = 1] :
               items \in [DOMAIN ks -> Leaves]} : ks \in KeyLists}

SecondMappings(first) ==
    {first} \cup
    {[second EXCEPT !.oid = 2, !.label = l, !.depth = d] :
        second \in Mappings(first.type), l \in {"", "l"}, d \in {1, 2}}

CallOnMappings ==
    /\ pc = "idle"
    /\ \E type \in MappingTypes : \E first \in Mappings(type) :
          \E second \in SecondMappings(first) :
             \E msg \in Messages : CallAssertEqual(first, second, msg)

NextMappings == Register \/ NewTestCase \/ CallOnMappings \/ Return

SpecMappings == Init /\ [][NextMappings]_vars

MappingComparators ==
    {"compare_holomap", "compare_tables", "compare_gridlayout", "compare_grids"}

\* el[key]
ItemAt(el, key) ==
    el.items[CHOOSE i \in DOMAIN el.keys : el.keys[i] = key]

\* the two mappings have the same keys, and under every key elements that
\* assertEqual finds equal
EqualUnderEveryKey(el1, el2) ==
    /\ KeySet(el1) = KeySet(el2)
    /\ \A key \in KeySet(el1) :
          AssertEqual(equality_type_funcs,
                      ItemAt(el1, key), ItemAt(el2, key), None).out.exc = "none"

\* the checks made before the keys are read pass: the header, and the depth
\* of an AxisLayout
ShapePasses(el1, el2) ==
    /\ HeaderPasses(el1, el2)
    /\ el1.depth = el2.depth

SameKeysOtherOrder(el1, el2) ==
    /\ KeySet(el1) = KeySet(el2)
    /\ Keys(el1) # Keys(el2)

\* C11: the comparators of key-indexed collections (compare_ndmappings as
\* used for HoloMap and Table, compare_gridlayout, _compare_grids) pair the
\* elements by key, whatever the order the two collections iterate in: the
\* comparison of two collections that pass the header checks passes if and
\* only if their key sets are equal and the elements under every key are
\* equal.
C11_PairedByKey ==
    (/\ pc = "returned"
     /\ call.fn = "assertEqual"
     /\ log[1].fn \in MappingComparators
     /\ ShapePasses(call.first, call.second))
    => (outcome.exc = "none" <=> EqualUnderEveryKey(call.first, call.second))

\* the positional pairing agrees with the pairing by key when the two
\* collections iterate in the same order
C11_PairedByKeySameOrder ==
    (/\ pc = "returned"
     /\ call.fn = "assertEqual"
     /\ log[1].fn \in MappingComparators
     /\ ShapePasses(call.first, call.second)
     /\ ~SameKeysOtherOrder(call.first, call.second))
    => (outcome.exc = "none" <=> EqualUnderEveryKey(call.first, call.second))

=============================================================================
